---- MODULE Spec2Model ----
(***************************************************************************)
(* Model of dashboard.py: the module-level reference data (price_dfs, the  *)
(* market-value tables, the two example production dictionaries), the two  *)
(* preprocessing helpers and the Dash callback update_output.              *)
(*                                                                         *)
(* Units.  Timestamps are <<year, month, day, hour>> in a calendar with    *)
(* the real month lengths (2024 is a leap year) and LastHour + 1 hours per *)
(* day.  Prices and market values are integers in                          *)
(* 1/1000 ct/kWh, yields are integers in kWh.  Floating-point results are  *)
(* exact rationals [n, d]; .round(2) and the :.2f format are round-half-   *)
(* even to 1/100.                                                          *)
(***************************************************************************)
EXTENDS Integers, Sequences, FiniteSets, TLC

\* Hours of a day are 0..LastHour.
LastHour == 1

HoursPerDay == LastHour + 1

\* the sequence s with all its elements computed (s itself, as a tuple)
AsTuple(s) == SelectSeq(s, LAMBDA x : TRUE)

None == "None"

(***************************************************************************)
(* Calendar: what pandas' .dt.year / .dt.month, pd.Timedelta and           *)
(* pd.DateOffset compute on naive timestamps.  A timestamp is              *)
(* <<year, month, day, hour>>.                                             *)
(***************************************************************************)
Years == 2021 .. 2026

IsLeap(y) == y % 4 = 0 /\ (y % 100 # 0 \/ y % 400 = 0)

DaysInMonth(y, m) ==
  IF m = 2 THEN (IF IsLeap(y) THEN 29 ELSE 28)
  ELSE IF m \in {4, 6, 9, 11} THEN 30 ELSE 31

RECURSIVE DaysBeforeMonth(_, _)
DaysBeforeMonth(y, m) ==
  IF m = 1 THEN 0 ELSE DaysBeforeMonth(y, m - 1) + DaysInMonth(y, m - 1)

DaysInYear(y) == DaysBeforeMonth(y, 12) + DaysInMonth(y, 12)

RECURSIVE YearStartDay(_)
YearStartDay(y) ==
  IF y = 2021 THEN 0 ELSE YearStartDay(y - 1) + DaysInYear(y - 1)

\* the calendar as tables: the first day number of each year and month
YearStartTable == AsTuple([i \in 1 .. 7 |-> YearStartDay(2020 + i)])

MonthStartTable ==
  AsTuple([i \in 1 .. 6 |-> AsTuple([m \in 1 .. 13 |-> DaysBeforeMonth(2020 + i, m)])])

YearStart(y) == YearStartTable[y - 2020]

MonthStart(y, m) == MonthStartTable[y - 2020][m]

Timestamp(y, m, d, h) == <<y, m, d, h>>

DtYear(t) == t[1]

DtMonth(t) == t[2]

DtDay(t) == t[3]

DtHour(t) == t[4]

\* the number of the hour t, counted from 2021-01-01 00:00
Serial(t) ==
  (YearStart(t[1]) + MonthStart(t[1], t[2]) + (t[3] - 1)) * HoursPerDay + t[4]

\* the timestamp of hour number k
FromSerial(k) ==
  LET day == k \div HoursPerDay
      y == CHOOSE yy \in Years : YearStart(yy) <= day /\ day < YearStart(yy + 1)
      n == day - YearStart(y)
      m == CHOOSE mm \in 1 .. 12 : MonthStart(y, mm) <= n /\ n < MonthStart(y, mm + 1)
  IN <<y, m, n - MonthStart(y, m) + 1, k % HoursPerDay>>

Min(a, b) == IF a <= b THEN a ELSE b

\* t + pd.DateOffset(years=1): same month, day and hour of the next year; a
\* day that does not exist there is clipped to the last day of the month.
DateOffsetClipDay(y, m, d) == Min(d, DaysInMonth(y, m))

DateOffsetYears1(t) ==
  <<t[1] + 1, t[2], DateOffsetClipDay(t[1] + 1, t[2], t[3]), t[4]>>

\* t + pd.Timedelta(hours=1)
TimedeltaHours1(t) ==
  IF t[4] < LastHour THEN <<t[1], t[2], t[3], t[4] + 1>>
  ELSE IF t[3] < DaysInMonth(t[1], t[2]) THEN <<t[1], t[2], t[3] + 1, 0>>
  ELSE IF t[2] < 12 THEN <<t[1], t[2] + 1, 1, 0>>
  ELSE <<t[1] + 1, 1, 1, 0>>

(***************************************************************************)
(* Exact arithmetic for the float results.                                 *)
(***************************************************************************)
Abs(x) == IF x < 0 THEN 0 - x ELSE x

RECURSIVE Gcd(_, _)
Gcd(a, b) == IF b = 0 THEN a ELSE Gcd(b, a % b)

\* the rational n/d (d > 0) in lowest terms
Rat(n, d) ==
  LET g == Gcd(Abs(n), d) IN [n |-> n \div g, d |-> d \div g]

RatAdd(a, b) ==
  LET g == Gcd(a.d, b.d)
  IN Rat(a.n * (b.d \div g) + b.n * (a.d \div g), (a.d \div g) * b.d)

RatDivInt(a, k) ==
  LET g == Gcd(Abs(a.n), k) IN Rat(a.n \div g, a.d * (k \div g))

RatMulInt(a, k) ==
  LET g == Gcd(a.d, k) IN Rat(a.n * (k \div g), a.d \div g)

\* floor of n/d for d > 0
FloorDiv(n, d) == n \div d

\* round(x, 2) in units of 1/100: round half to even of 100*x
Round2(x) ==
  LET num == 100 * x.n
      q == FloorDiv(num, x.d)
      r2 == 2 * (num - q * x.d)
  IN IF r2 < x.d THEN q
     ELSE IF r2 > x.d THEN q + 1
     ELSE IF q % 2 = 0 THEN q ELSE q + 1

RECURSIVE SeqSum(_)
SeqSum(s) == IF s = <<>> THEN 0 ELSE Head(s) + SeqSum(Tail(s))

RECURSIVE SetSum(_, _)
\* sum of f[x] over x in S
SetSum(S, f) ==
  IF S = {} THEN 0
  ELSE LET x == CHOOSE x \in S : TRUE IN f[x] + SetSum(S \ {x}, f)

(***************************************************************************)
(* Market value tables and the reference value, in 1/1000 ct/kWh.          *)
(***************************************************************************)
MarketValuesMonthly2024 ==
  <<7535, 5875, 4965, 3795, 3161, 4635, 3554, 4263, 4512, 6752, 10076, 11171>>

InitialMarketValuesMonthly ==
  (2021 :> <<5543, 4499, 4105, 4551, 4187, 6864, 7409, 7681, 11715, 12804, 18307, 27075>>)
  @@ (2022 :> <<17838, 11871, 20712, 14566, 15132, 18940, 26093, 39910, 31673, 12904, 15374, 24661>>)
  @@ (2023 :> <<12291, 12343, 8883, 8002, 5356, 7124, 5173, 7533, 7447, 6763, 8525, 6592>>)
  @@ (2024 :> MarketValuesMonthly2024)
  @@ (2025 :> MarketValuesMonthly2024)

MarketValueYearly2024 == 4624

InitialMarketValuesYearly ==
  (2021 :> 7552) @@ (2022 :> 22306) @@ (2023 :> 7200)
  @@ (2024 :> MarketValueYearly2024) @@ (2025 :> MarketValueYearly2024)

ANZULEGENDER_WERT == 6720

PriceYears == {2021, 2022, 2023, 2024, 2025}

(***************************************************************************)
(* The files of the data/ folder.  A price file is a sequence of CSV rows  *)
(* [Datum, von, price]: Datum = <<day, month, year>>, von = the start      *)
(* hour, price = the decimal-comma text as [neg, int, dec] ("-1,234").     *)
(* A production workbook is [ncols, rows]; a row is [time, yield] with     *)
(* time = [t |-> the hour (UTC), mi |-> minute]; a cell that is no date is *)
(* NotADate.                                                               *)
(***************************************************************************)
\* the spot price the price files hold for hour t, in 1/1000 ct/kWh
FilePrice(kind, t) ==
  IF kind = "full" THEN (((Serial(t) * 31 + 5) % 23) - 6) * 577
  ELSE (((Serial(t) * 17 + 3) % 19) - 7) * 431

PriceText(v) ==
  IF v < 0 THEN [neg |-> TRUE, int |-> (-v) \div 1000, dec |-> (-v) % 1000]
  ELSE [neg |-> FALSE, int |-> v \div 1000, dec |-> v % 1000]

CsvRow(kind, t) ==
  [Datum |-> <<DtDay(t), DtMonth(t), DtYear(t)>>, von |-> DtHour(t),
   price |-> PriceText(FilePrice(kind, t))]

\* all hours of the days first .. last (day numbers since 2021-01-01)
HoursOfDays(first, last) ==
  AsTuple([i \in 1 .. (last - first + 1) * HoursPerDay |->
             FromSerial(first * HoursPerDay + i - 1)])

DayNumber(y, m, d) == Serial(Timestamp(y, m, d, 0)) \div HoursPerDay

\* the days every price file of the bundled data has records for
SampleDays(y) ==
  HoursOfDays(DayNumber(y, 1, 1), DayNumber(y, 1, 1))
  \o HoursOfDays(DayNumber(y, 2, 28), DayNumber(y, 3, 1))
  \o HoursOfDays(DayNumber(y, 9, 30), DayNumber(y, 10, 1))

\* "full": 2025 has every hour of January to September and nothing later, 2024
\* has every hour of October to December; "sparse": the sample days and the
\* last day of every year
PriceFileHours(kind, y) ==
  IF kind = "full" /\ y = 2025
    THEN HoursOfDays(DayNumber(2025, 1, 1), DayNumber(2025, 9, 30))
  ELSE IF kind = "full" /\ y = 2024
    THEN SampleDays(2024) \o HoursOfDays(DayNumber(2024, 10, 2), DayNumber(2024, 12, 31))
  ELSE SampleDays(y) \o HoursOfDays(DayNumber(y, 12, 31), DayNumber(y, 12, 31))

PriceFile(kind, y) ==
  LET hours == PriceFileHours(kind, y)
  IN AsTuple([i \in 1 .. Len(hours) |-> CsvRow(kind, hours[i])])

NotADate == [t |-> <<0, 0, 0, 0>>, mi |-> 0]

RawTime(y, m, d, h, mi) == [t |-> Timestamp(y, m, d, h), mi |-> mi]

RawRow(y, m, d, h, mi, v) == [time |-> RawTime(y, m, d, h, mi), yield |-> v]

Workbook(rows) == [ncols |-> 2, rows |-> rows]

\* end of February of the leap year, half-hourly in the first hour
LeapWindow(k) ==
  Workbook(<<RawRow(2024, 2, 28, 0, 0, 40 + k), RawRow(2024, 2, 28, 0, 30, 10),
             RawRow(2024, 2, 28, LastHour, 0, 5),
             RawRow(2024, 2, 29, 0, 0, 30), RawRow(2024, 2, 29, LastHour, 0, 0 - 4),
             RawRow(2024, 3, 1, 0, 0, 15 + k)>>)

\* the turn of the year 2023/2024
YearTurnWindow(k) ==
  Workbook(<<RawRow(2023, 12, 31, 0, 0, 20 + k), RawRow(2023, 12, 31, LastHour, 0, 7),
             RawRow(2024, 1, 1, 0, 0, 9)>>)

\* the end of September 2024, where the forecast prices change source
SpliceWindow(k) ==
  Workbook(<<RawRow(2024, 9, 30, 0, 0, 12 + k), RawRow(2024, 9, 30, LastHour, 0, 25),
             RawRow(2024, 10, 1, 0, 0, 8)>>)

\* 2024 readings that are all zero or negative
IdleWindow ==
  Workbook(<<RawRow(2024, 2, 28, 0, 0, 0), RawRow(2024, 2, 28, LastHour, 0, 0 - 3)>>)

SBNames ==
  <<"SB: 2P Tracker O-W (1.08 MWp)", "SB: 2P Tracker (1.05 MWp)", "SB: Cow-PV (1.05 MWp)",
    "SB: Cow-PV O-W (1.0 MWp)", "SB: Vertical PV (0.67 MWp)">>

NBNames ==
  <<"NB: 2P Tracker O-W (1.15 MWp)", "NB: 2P Tracker (1 MWp)", "NB: Cow-PV (1,08 MWp)",
    "NB: Cow-PV O-W (1,04 MWp)", "NB: Vertical PV (0.609 MWp)">>

SBWorkbooks ==
  <<LeapWindow(0), YearTurnWindow(0), SpliceWindow(0), IdleWindow, LeapWindow(3)>>

NBWorkbooks ==
  <<SpliceWindow(2), LeapWindow(1), YearTurnWindow(4), SpliceWindow(5), IdleWindow>>

\* what data/ holds: the price files (or none) and the example workbooks
DataDir(prices, examples) == [prices |-> prices, examples |-> examples]

DataDirs ==
  {DataDir("missing", "missing"), DataDir("missing", "both"), DataDir("sparse", "missing"),
   DataDir("sparse", "sb_only"), DataDir("sparse", "both"), DataDir("full", "both")}

(***************************************************************************)
(* Helper functions                                                        *)
(***************************************************************************)
\* str.replace(',', '.').astype(float)
ParsePrice(txt) ==
  IF txt.neg THEN 0 - (txt.int * 1000 + txt.dec) ELSE txt.int * 1000 + txt.dec

\* pd.to_datetime(Datum + ' ' + von, format='%d.%m.%Y %H:%M')
ParseDatumVon(datum, von) == Timestamp(datum[3], datum[2], datum[1], von)

preprocess_price_data(df, year, mvm, mvy) ==
  AsTuple([i \in 1 .. Len(df) |->
     LET t == ParseDatumVon(df[i].Datum, df[i].von)
     IN [t |-> t,
         price |-> ParsePrice(df[i].price),
         mv_monthly |-> mvm[year][DtMonth(t)],
         mv_yearly |-> mvy[year],
         aw |-> ANZULEGENDER_WERT]])

Max(a, b) == IF a >= b THEN a ELSE b

\* .apply(lambda x: max(x, 0.0))
ClampYield(x) == Max(x, 0)

\* the sum of the clamped readings whose time falls in hour t
BucketSum(rows, t) ==
  SeqSum(AsTuple([i \in 1 .. Len(rows) |->
                    IF rows[i].time.t = t THEN ClampYield(rows[i].yield) ELSE 0]))

\* preprocess_pv_data: [ok, df] or [ok |-> FALSE, exc].  resample('h') has one
\* row for every hour from the first to the last reading.
preprocess_pv_data(df) ==
  IF df.ncols < 2 THEN [ok |-> FALSE, exc |-> "IndexError"]
  ELSE IF \E i \in 1 .. Len(df.rows) : df.rows[i].time = NotADate
    THEN [ok |-> FALSE, exc |-> "DateParseError"]
  ELSE
    LET rows == df.rows
        hs == {Serial(rows[i].time.t) : i \in 1 .. Len(rows)}
        lo == CHOOSE k \in hs : \A u \in hs : k <= u
        hi == CHOOSE k \in hs : \A u \in hs : u <= k
    IN [ok |-> TRUE,
        df |-> AsTuple([i \in 1 .. (hi - lo + 1) |->
                  LET utc == FromSerial(lo + i - 1)
                  IN [utc |-> utc, yield |-> BucketSum(rows, utc), t |-> TimedeltaHours1(utc)]])]

(***************************************************************************)
(* State                                                                   *)
(***************************************************************************)
VARIABLES
  data_dir,                   \* the files found in data/ at startup
  price_dfs,                  \* year -> preprocessed price frame ({} when loading failed)
  market_values_monthly,
  market_values_yearly,
  example_production_dfs_sb,  \* [keys, df]: project names in insertion order, name -> frame
  example_production_dfs_nb,
  pc,                         \* "idle" | "pending" | "done": where the invocation is
  request,                    \* the arguments of the invocation
  result                      \* what the last finished invocation returned or raised

vars ==
  <<data_dir, price_dfs, market_values_monthly, market_values_yearly,
    example_production_dfs_sb, example_production_dfs_nb, pc, request, result>>

EmptyDict == [keys |-> <<>>, df |-> <<>>]

\* lines 19-26 and 87-88: all five files, or price_dfs = {}
LoadPrices(dir, mvm, mvy) ==
  IF dir.prices = "missing" THEN <<>>
  ELSE [y \in PriceYears |-> preprocess_price_data(PriceFile(dir.prices, y), y, mvm, mvy)]

LoadedDict(names, books) ==
  [keys |-> names,
   df |-> [n \in {names[i] : i \in 1 .. Len(names)} |->
             preprocess_pv_data(books[CHOOSE i \in 1 .. Len(names) : names[i] = n]).df]]

\* lines 42-60 and 90-93: the first missing workbook ends the loading
LoadExamplesSB(dir) ==
  IF dir.examples = "missing" THEN EmptyDict ELSE LoadedDict(SBNames, SBWorkbooks)

LoadExamplesNB(dir) ==
  IF dir.examples = "both" THEN LoadedDict(NBNames, NBWorkbooks) ELSE EmptyDict

NoRequest ==
  [contents |-> [present |-> FALSE, commas |-> 0, b64 |-> "", excel |-> FALSE,
                 df |-> [ncols |-> 0, rows |-> <<>>]],
   selected_project |-> None, selected_dataset |-> "SB", filename |-> None]

NoResult ==
  [kind |-> "none", exc |-> "", children |-> "", options |-> <<>>, value |-> None,
   yearly_results |-> <<>>, monthly_results |-> <<>>,
   df_price_2025_full |-> <<>>, df_pv_2025 |-> <<>>, df_merged_2025 |-> {}]

Init ==
  /\ data_dir \in DataDirs
  /\ market_values_monthly = InitialMarketValuesMonthly
  /\ market_values_yearly = InitialMarketValuesYearly
  /\ price_dfs = LoadPrices(data_dir, InitialMarketValuesMonthly, InitialMarketValuesYearly)
  /\ example_production_dfs_sb = LoadExamplesSB(data_dir)
  /\ example_production_dfs_nb = LoadExamplesNB(data_dir)
  /\ pc = "idle"
  /\ request = NoRequest
  /\ result = NoResult

(***************************************************************************)
(* Objects.  Dictionaries and DataFrames are mutable objects and Python    *)
(* variables hold references to them, so one invocation of update_output   *)
(* runs on a heap: object -> value.  A dictionary is [keys, ref] (keys in  *)
(* insertion order, ref: key -> object), a frame is its sequence of rows.  *)
(* The heap starts from the module-level objects and the module-level      *)
(* state is read back from it when the invocation ends.  An expression     *)
(* that yields an object is [h, ref]: the heap after it and the object.    *)
(***************************************************************************)
PriceObj ==
  (2021 :> "price_dfs[2021]") @@ (2022 :> "price_dfs[2022]") @@ (2023 :> "price_dfs[2023]")
  @@ (2024 :> "price_dfs[2024]") @@ (2025 :> "price_dfs[2025]")

LocalObjs ==
  {"active_example_dfs", "all_production_dfs", "uploaded_df", "price_mask",
   "df_price_2024_end", "pv_mask", "df_pv_2024"}

ExampleFrames(sb, nb) ==
  [n \in DOMAIN sb.df \cup DOMAIN nb.df |-> IF n \in DOMAIN sb.df THEN sb.df[n] ELSE nb.df[n]]

PriceFrames(prices) ==
  [o \in {PriceObj[y] : y \in DOMAIN prices} |->
     prices[CHOOSE y \in DOMAIN prices : PriceObj[y] = o]]

DictObj(d) == [keys |-> d.keys, ref |-> [n \in DOMAIN d.df |-> n]]

GlobalHeap ==
  ("price_dfs" :> [ref |-> [y \in DOMAIN price_dfs |-> PriceObj[y]]])
  @@ ("example_production_dfs_sb" :> DictObj(example_production_dfs_sb))
  @@ ("example_production_dfs_nb" :> DictObj(example_production_dfs_nb))
  @@ PriceFrames(price_dfs)
  @@ ExampleFrames(example_production_dfs_sb, example_production_dfs_nb)
  @@ [o \in LocalObjs |-> <<>>]

ReadDict(h, d) ==
  [keys |-> h[d].keys, df |-> [n \in DOMAIN h[d].ref |-> h[h[d].ref[n]]]]

ReadPrices(h) == [y \in DOMAIN h["price_dfs"].ref |-> h[h["price_dfs"].ref[y]]]

\* variant of DictCopy that copies nothing: the assignment dst = src
DictAlias(h, src, dst) == [h |-> h, ref |-> src]

\* dict.copy(): a new dictionary referring to the same values
DictCopy(h, src, dst) == [h |-> [h EXCEPT ![dst] = h[src]], ref |-> dst]

\* d[key] = obj
DictSetItem(h, d, key, obj) ==
  [h EXCEPT ![d] =
     [keys |-> IF key \in DOMAIN h[d].ref THEN h[d].keys ELSE Append(h[d].keys, key),
      ref |-> (key :> obj) @@ h[d].ref]]

\* df[mask]: a new frame dst of the rows the mask keeps
BoolIndex(h, dst, kept) == [h |-> [h EXCEPT ![dst] = kept], ref |-> dst]

\* o.copy() of the frame o
FrameCopy(o, dst) == [h |-> [o.h EXCEPT ![dst] = o.h[o.ref]], ref |-> dst]

ShiftedRows(df) == AsTuple([i \in 1 .. Len(df) |-> [df[i] EXCEPT !.t = DateOffsetYears1(df[i].t)]])

\* o['Time (CET)'] += pd.DateOffset(years=1), in place
AddDateOffset(o) == [h |-> [o.h EXCEPT ![o.ref] = ShiftedRows(o.h[o.ref])], ref |-> o.ref]

\* year in df['Time (CET)'].dt.year.unique()
YearInFrame(df, year) == \E i \in 1 .. Len(df) : DtYear(df[i].t) = year

MergedRow(left, right, p) ==
  [i |-> p[1], j |-> p[2], t |-> left[p[1]].t, yield |-> left[p[1]].yield,
   price |-> right[p[2]].price]

MergeOn(left, right, common) ==
  {MergedRow(left, right, p) :
     p \in {q \in {i \in 1 .. Len(left) : left[i].t \in common}
               \X {j \in 1 .. Len(right) : right[j].t \in common} :
              left[q[1]].t = right[q[2]].t}}

\* pd.merge(left, right, on="Time (CET)", how="inner"): one row for every pair
\* of a left and a right row with the same timestamp (i, j tell the pairs apart)
Merge(left, right) ==
  MergeOn(left, right,
          {left[i].t : i \in 1 .. Len(left)} \cap {right[j].t : j \in 1 .. Len(right)})

TotalYield(rows) == SetSum(rows, [x \in rows |-> x.yield])

NonNegative(rows) == {x \in rows : x.price >= 0}

YieldTimesPrice(rows) == SetSum(rows, [x \in rows |-> x.yield * x.price])

\* (yield * price over the rows with price >= 0).sum() / 100
RevenueSpotmarket(rows) == RatDivInt(Rat(YieldTimesPrice(NonNegative(rows)), 1000), 100)

\* variant of AdditionalRevenueYearly that pays the premium on every record
AdditionalRevenueAllRecords(rows, mv) ==
  IF mv < ANZULEGENDER_WERT
    THEN RatDivInt(Rat(TotalYield(rows) * (ANZULEGENDER_WERT - mv), 1000), 100)
  ELSE Rat(0, 1)

\* additional_revenue_yearly, given the year's market value
AdditionalRevenueYearly(rows, mv) ==
  IF mv < ANZULEGENDER_WERT
    THEN RatDivInt(Rat(TotalYield(NonNegative(rows)) * (ANZULEGENDER_WERT - mv), 1000), 100)
  ELSE Rat(0, 1)

\* total_revenue_mp_yearly
TotalRevenueMpYearly(rows, mv) == RatAdd(RevenueSpotmarket(rows), AdditionalRevenueYearly(rows, mv))

\* (revenue / total_production * 100).round(2), in 1/100 ct/kWh
SpecificRevenue(revenue, total_production) ==
  Round2(RatMulInt(RatDivInt(revenue, total_production), 100))

YearLabel ==
  (2021 :> "2021") @@ (2022 :> "2022") @@ (2023 :> "2023") @@ (2024 :> "2024")

ForecastLabel == "2025 (Forecast)"

YearlyEntry(project_name, jahr, specific_revenue) ==
  [Projekt |-> project_name, Jahr |-> jahr, spec |-> specific_revenue]

\* lines 191-205: the entry of a merged year, none when nothing was produced
HistoricalEntry(df_merged, total_production, project_name, year) ==
  IF total_production = 0 THEN <<>>
  ELSE <<YearlyEntry(project_name, YearLabel[year],
           SpecificRevenue(
             IF year \in DOMAIN market_values_yearly
               THEN TotalRevenueMpYearly(df_merged, market_values_yearly[year])
             ELSE RevenueSpotmarket(df_merged),
             total_production))>>

HistoricalMerged(df_merged, project_name, year) ==
  HistoricalEntry(df_merged, TotalYield(df_merged), project_name, year)

In2021(r) == DtYear(r.t) = 2021

In2022(r) == DtYear(r.t) = 2022

In2023(r) == DtYear(r.t) = 2023

In2024(r) == DtYear(r.t) = 2024

\* lines 187-205: one historical year of one project
HistoricalYear(h, df_pv, df_pv_year, project_name, year) ==
  IF ~YearInFrame(df_pv, year) \/ year \notin DOMAIN h["price_dfs"].ref THEN <<>>
  ELSE HistoricalMerged(Merge(df_pv_year, h[h["price_dfs"].ref[year]]), project_name, year)

Historical(h, df_pv, project_name) ==
  HistoricalYear(h, df_pv, SelectSeq(df_pv, In2021), project_name, 2021)
  \o HistoricalYear(h, df_pv, SelectSeq(df_pv, In2022), project_name, 2022)
  \o HistoricalYear(h, df_pv, SelectSeq(df_pv, In2023), project_name, 2023)
  \o HistoricalYear(h, df_pv, SelectSeq(df_pv, In2024), project_name, 2024)

\* variant of MonthGe10 that leaves October out
MonthGt10(r) == DtMonth(r.t) > 10

MonthGe10(r) == DtMonth(r.t) >= 10

\* lines 210-211 and 245-246: df_price_2024_end after the shift
PriceEnd(h) ==
  AddDateOffset(FrameCopy(BoolIndex(h, "price_mask",
                                    SelectSeq(h[h["price_dfs"].ref[2024]], MonthGe10)),
                          "df_price_2024_end"))

\* lines 214-216 and 249-251: df_pv_2025
ShiftedProduction(h, pv) ==
  AddDateOffset(FrameCopy(BoolIndex(h, "pv_mask", SelectSeq(h[pv], In2024)), "df_pv_2024"))

\* pd.concat([a, b])
Concat(a, b) == a \o b

ForecastMerged(df_price_2025_full, df_pv_2025) ==
  [h |-> df_pv_2025.h,
   df_price_2025_full |-> df_price_2025_full,
   df_pv_2025 |-> df_pv_2025.h[df_pv_2025.ref],
   df_merged_2025 |-> Merge(df_pv_2025.h[df_pv_2025.ref], df_price_2025_full)]

ForecastFrom(df_price_2024_end, df_price_2025_partial, pv) ==
  ForecastMerged(Concat(df_price_2024_end.h[df_price_2025_partial],
                        df_price_2024_end.h[df_price_2024_end.ref]),
                 ShiftedProduction(df_price_2024_end.h, pv))

\* lines 209-218 and 244-252: the synthetic 2025 prices and production of the
\* frame pv, and their merge
Forecast(h, pv) == ForecastFrom(PriceEnd(h), h["price_dfs"].ref[2025], pv)

HasForecast(h, pv) == YearInFrame(h[pv], 2024) /\ 2025 \in DOMAIN h["price_dfs"].ref

\* variant of ForecastEntry that reports 0 when nothing was produced
ForecastEntryOrZero(df_merged_2025, total_production, project_name) ==
  IF total_production > 0
    THEN <<YearlyEntry(project_name, ForecastLabel,
             SpecificRevenue(TotalRevenueMpYearly(df_merged_2025, market_values_yearly[2025]),
                             total_production))>>
  ELSE <<YearlyEntry(project_name, ForecastLabel, 0)>>

\* lines 219-230: the forecast entry, none when nothing was produced
ForecastEntry(df_merged_2025, total_production, project_name) ==
  IF total_production > 0
    THEN <<YearlyEntry(project_name, ForecastLabel,
             SpecificRevenue(TotalRevenueMpYearly(df_merged_2025, market_values_yearly[2025]),
                             total_production))>>
  ELSE <<>>

RECURSIVE ProjectLoop(_, _, _, _)
AfterForecast(f, all, names, yearly_results) ==
  ProjectLoop(f.h, all, Tail(names),
              yearly_results
                \o ForecastEntry(f.df_merged_2025, TotalYield(f.df_merged_2025), Head(names)))

ProjectBody(h, all, names, yearly_results, pv) ==
  IF HasForecast(h, pv) THEN AfterForecast(Forecast(h, pv), all, names, yearly_results)
  ELSE ProjectLoop(h, all, Tail(names), yearly_results)

\* lines 184-230: the loop over all_production_dfs.items()
ProjectLoop(h, all, names, yearly_results) ==
  IF names = <<>> THEN [h |-> h, yearly_results |-> yearly_results]
  ELSE ProjectBody(h, all, names,
                   yearly_results \o Historical(h, h[h[all].ref[Head(names)]], Head(names)),
                   h[all].ref[Head(names)])

MonthNames ==
  <<"Jan", "Feb", "Mar", "Apr", "May", "Jun", "Jul", "Aug", "Sep", "Oct", "Nov", "Dec">>

NegativePrice(rows) == {x \in rows : x.price < 0}

MonthlyRecord(month, total_prod, prod_neg_price, rev_spot, total_rev_mp) ==
  [Monat |-> MonthNames[month],
   Produktion |-> total_prod,
   ProduktionNegativpreis |-> prod_neg_price,
   UmsatzSpotmarkt |-> Round2(rev_spot),
   UmsatzMarktpraemie |-> Round2(total_rev_mp),
   SpezErloesSpotmarkt |-> IF total_prod > 0 THEN SpecificRevenue(rev_spot, total_prod) ELSE 0,
   SpezErloesMarktpraemie |->
     IF total_prod > 0 THEN SpecificRevenue(total_rev_mp, total_prod) ELSE 0]

MonthlyOf(month_data, month, total_prod) ==
  IF total_prod > 0
    THEN MonthlyRecord(month, total_prod, TotalYield(NegativePrice(month_data)),
                       RevenueSpotmarket(month_data),
                       TotalRevenueMpYearly(month_data, market_values_yearly[2025]))
  ELSE MonthlyRecord(month, total_prod, TotalYield(NegativePrice(month_data)),
                     Rat(0, 1), Rat(0, 1))

MonthData(df_merged_2025, month) == {x \in df_merged_2025 : DtMonth(x.t) = month}

MonthlyData(month_data, month) == MonthlyOf(month_data, month, TotalYield(month_data))

\* lines 255-279: one month of the forecast breakdown.  The two revenues are
\* the :.2f texts in 1/100 EUR, the specific revenues are in 1/100 ct/kWh.
MonthlyRow(df_merged_2025, month) == MonthlyData(MonthData(df_merged_2025, month), month)

MonthlyRows(f) ==
  [h |-> f.h,
   df_price_2025_full |-> f.df_price_2025_full,
   df_pv_2025 |-> f.df_pv_2025,
   df_merged_2025 |-> f.df_merged_2025,
   monthly_results |-> AsTuple([month \in 1 .. 12 |-> MonthlyRow(f.df_merged_2025, month)])]

\* lines 240-279: the breakdown of the selected project, or no rows
Monthly(h, all, current_selected_project) ==
  IF /\ current_selected_project \in DOMAIN h[all].ref
     /\ HasForecast(h, h[all].ref[current_selected_project])
    THEN MonthlyRows(Forecast(h, h[all].ref[current_selected_project]))
  ELSE [h |-> h, df_price_2025_full |-> <<>>, df_pv_2025 |-> <<>>, df_merged_2025 |-> {},
        monthly_results |-> <<>>]

\* variant of ValidatedSelection that keeps whatever was selected
KeepSelection(keys, selected_project) == selected_project

\* lines 159-161
ValidatedSelection(keys, selected_project) ==
  IF \E i \in 1 .. Len(keys) : keys[i] = selected_project THEN selected_project
  ELSE IF keys # <<>> THEN keys[1] ELSE None

\* pd.read_excel(io.BytesIO(decoded)): only the bytes of a workbook are read
ReadExcel(contents) == contents.b64 = "ok" /\ contents.excel

UploadStatus(status, exc, h, name) == [status |-> status, exc |-> exc, h |-> h, name |-> name]

\* lines 171-175
Uploaded(h, all, project_name, processed) ==
  IF ~processed.ok THEN UploadStatus("caught", processed.exc, h, None)
  ELSE UploadStatus("ok", "",
                    DictSetItem([h EXCEPT !["uploaded_df"] = processed.df],
                                all, project_name, "uploaded_df"),
                    project_name)

\* lines 166-179: [status, exc, h, name]; status is "none" (no upload), "ok",
\* "caught" (the except branch) or "raised"
Upload(h, all, contents, filename) ==
  IF ~contents.present THEN UploadStatus("none", "", h, None)
  ELSE IF contents.commas # 1 THEN UploadStatus("raised", "ValueError", h, None)
  ELSE IF contents.b64 = "bad_padding" THEN UploadStatus("raised", "binascii.Error", h, None)
  ELSE IF ~ReadExcel(contents) THEN UploadStatus("caught", "read_excel", h, None)
  ELSE Uploaded(h, all, IF filename # None THEN filename ELSE "Hochgeladene Datei",
                preprocess_pv_data(contents.df))

\* what an invocation leaves: the heap, and what it returned or raised; of a
\* normal return also the forecast frames of the monthly breakdown
Outcome(h, kind, exc, children, options, value, yearly_results, monthly) ==
  [h |-> h,
   out |-> [kind |-> kind, exc |-> exc, children |-> children, options |-> options,
            value |-> value, yearly_results |-> yearly_results,
            monthly_results |-> monthly.monthly_results,
            df_price_2025_full |-> monthly.df_price_2025_full,
            df_pv_2025 |-> monthly.df_pv_2025,
            df_merged_2025 |-> monthly.df_merged_2025]]

NoMonthly ==
  [df_price_2025_full |-> <<>>, df_pv_2025 |-> <<>>, df_merged_2025 |-> {},
   monthly_results |-> <<>>]

Raised(h, exc) == Outcome(h, "raise", exc, "", <<>>, None, <<>>, NoMonthly)

HasDuplicate(yearly_results) ==
  \E i, j \in 1 .. Len(yearly_results) :
    /\ i < j
    /\ yearly_results[i].Projekt = yearly_results[j].Projekt
    /\ yearly_results[i].Jahr = yearly_results[j].Jahr

\* lines 281-310: monthly_df['Monat'] raises KeyError on a frame without rows
Tables(yearly_results, monthly, dropdown_options, current_selected_project) ==
  IF monthly.monthly_results = <<>> THEN Raised(monthly.h, "KeyError")
  ELSE Outcome(monthly.h, "return", "", "tables", dropdown_options, current_selected_project,
               yearly_results, monthly)

\* lines 232-279: pivot raises ValueError on a duplicate (Projekt, Jahr)
Summaries(loop, all, dropdown_options, current_selected_project) ==
  IF HasDuplicate(loop.yearly_results) THEN Raised(loop.h, "ValueError")
  ELSE Tables(loop.yearly_results, Monthly(loop.h, all, current_selected_project),
              dropdown_options, current_selected_project)

\* lines 181-310: the calculations and the normal return
Calculate(h, all, dropdown_options, current_selected_project) ==
  Summaries(ProjectLoop(h, all, h[all].keys, <<>>), all, dropdown_options,
            current_selected_project)

\* lines 164-310
AfterUpload(up, all, dropdown_options, current_selected_project) ==
  IF up.status = "raised" THEN Raised(up.h, up.exc)
  ELSE IF up.status = "caught"
    THEN Outcome(up.h, "return", up.exc, "error_div", dropdown_options,
                 current_selected_project, <<>>, NoMonthly)
  ELSE IF up.status = "ok" THEN Calculate(up.h, all, up.h[all].keys, up.name)
  ELSE Calculate(up.h, all, dropdown_options, current_selected_project)

\* lines 154-179
WithDicts(active_example_dfs, all_production_dfs, contents, selected_project, filename) ==
  AfterUpload(Upload(all_production_dfs.h, all_production_dfs.ref, contents, filename),
              all_production_dfs.ref,
              all_production_dfs.h[active_example_dfs].keys,
              ValidatedSelection(all_production_dfs.h[all_production_dfs.ref].keys,
                                 selected_project))

\* line 154
WithActive(active_example_dfs, contents, selected_project, filename) ==
  WithDicts(active_example_dfs.ref,
            DictCopy(active_example_dfs.h, active_example_dfs.ref, "all_production_dfs"),
            contents, selected_project, filename)

\* the callback: [h, out], the heap when it ends and what it returned or raised
update_output(h, contents, selected_project, selected_dataset, filename) ==
  WithActive(IF selected_dataset = "SB"
               THEN DictCopy(h, "example_production_dfs_sb", "active_example_dfs")
             ELSE DictCopy(h, "example_production_dfs_nb", "active_example_dfs"),
             contents, selected_project, filename)

(***************************************************************************)
(* The inputs of the callback                                              *)
(***************************************************************************)
\* readings of 2023 only
Only2023Window ==
  Workbook(<<RawRow(2023, 2, 28, 0, 0, 11), RawRow(2023, 3, 1, 0, 0, 6)>>)

\* readings from the last day of 2021 to the first day of 2024
LongWindow ==
  Workbook(<<RawRow(2021, 12, 31, 0, 0, 14), RawRow(2022, 2, 28, 0, 30, 21),
             RawRow(2022, 12, 31, 0, 0, 9), RawRow(2023, 3, 1, 0, 0, 33),
             RawRow(2024, 1, 1, 0, 0, 17)>>)

OneColumn == [ncols |-> 1, rows |-> <<>>]

BadTimestamps ==
  Workbook(<<RawRow(2024, 2, 28, 0, 0, 5), [time |-> NotADate, yield |-> 3]>>)

NoWorkbook == [ncols |-> 0, rows |-> <<>>]

Contents(commas, b64, excel, df) ==
  [present |-> TRUE, commas |-> commas, b64 |-> b64, excel |-> excel, df |-> df]

ParseableUploads ==
  {Contents(1, "ok", TRUE, w) : w \in {LeapWindow(7), Only2023Window, LongWindow, IdleWindow}}

MalformedUploads ==
  {Contents(0, "ok", TRUE, LeapWindow(7)),         \* no comma in the data URL
   Contents(2, "ok", TRUE, LeapWindow(7)),         \* an extra comma
   Contents(1, "bad_padding", FALSE, NoWorkbook),  \* base64 that does not decode
   Contents(1, "garbage", FALSE, NoWorkbook),      \* base64 that decodes to other bytes
   Contents(1, "ok", FALSE, NoWorkbook),           \* bytes that are no workbook
   Contents(1, "ok", TRUE, OneColumn),
   Contents(1, "ok", TRUE, BadTimestamps)}

ContentsValues == {NoRequest.contents} \cup ParseableUploads \cup MalformedUploads

Filenames == {None, "upload.xlsx", SBNames[1]}

SelectedProjects == {None, SBNames[3], NBNames[2], "upload.xlsx", "unknown"}

Datasets == {"SB", "NB"}

(***************************************************************************)
(* Actions                                                                 *)
(***************************************************************************)
\* Dash invokes the callback (lines 137-145): an input changed, or the
\* dropdown value the last invocation returned is fed back
Request(contents, selected_project, selected_dataset, filename) ==
  /\ pc = "idle"
  /\ contents.present \/ filename = None
  /\ pc' = "pending"
  /\ request' = [contents |-> contents, selected_project |-> selected_project,
                 selected_dataset |-> selected_dataset, filename |-> filename]
  /\ UNCHANGED result
  /\ UNCHANGED <<data_dir, price_dfs, market_values_monthly, market_values_yearly,
                 example_production_dfs_sb, example_production_dfs_nb>>

Finished(run) ==
  /\ result' = run.out
  /\ price_dfs' = ReadPrices(run.h)
  /\ example_production_dfs_sb' = ReadDict(run.h, "example_production_dfs_sb")
  /\ example_production_dfs_nb' = ReadDict(run.h, "example_production_dfs_nb")

\* the invocation runs to its return or to the exception it raises
UpdateOutput ==
  /\ pc = "pending"
  /\ Finished(update_output(GlobalHeap, request.contents, request.selected_project,
                            request.selected_dataset, request.filename))
  /\ pc' = "done"
  /\ UNCHANGED <<data_dir, market_values_monthly, market_values_yearly, request>>

\* Dash sends the outputs (or the error) to the browser; the arguments and the
\* results of the invocation are dropped
Respond ==
  /\ pc = "done"
  /\ pc' = "idle"
  /\ request' = NoRequest
  /\ result' = NoResult
  /\ UNCHANGED <<data_dir, price_dfs, market_values_monthly, market_values_yearly,
                 example_production_dfs_sb, example_production_dfs_nb>>

Next ==
  \/ \E c \in ContentsValues, p \in SelectedProjects, d \in Datasets, f \in Filenames :
       Request(c, p, d, f)
  \/ UpdateOutput
  \/ Respond

Spec == Init /\ [][Next]_vars


(***************************************************************************)
(* Properties.  They are stated on the state an invocation leaves          *)
(* (pc = "done"), from the request it ran on and the module-level state.   *)
(***************************************************************************)
Returned == pc = "done" /\ result.kind = "return"

ShowsTables == Returned /\ result.children = "tables"

KeySet(keys) == {keys[i] : i \in 1 .. Len(keys)}

\* the example dictionary the dataset selector picks
ActiveExamples ==
  IF request.selected_dataset = "SB" THEN example_production_dfs_sb
  ELSE example_production_dfs_nb

StartupExamples ==
  IF request.selected_dataset = "SB" THEN LoadExamplesSB(data_dir) ELSE LoadExamplesNB(data_dir)

NoUpload == ~request.contents.present

UploadParses == request.contents \in ParseableUploads

UploadMalformed == request.contents \in MalformedUploads

UploadName == IF request.filename # None THEN request.filename ELSE "Hochgeladene Datei"

\* the projects the invocation calculates: the examples and a parsed upload
Projects == KeySet(ActiveExamples.keys) \cup (IF UploadParses THEN {UploadName} ELSE {})

ProjectFrame(name) ==
  IF UploadParses /\ name = UploadName THEN preprocess_pv_data(request.contents.df).df
  ELSE ActiveExamples.df[name]

Labels == {"2021", "2022", "2023", "2024", ForecastLabel}

LabelYear ==
  ("2021" :> 2021) @@ ("2022" :> 2022) @@ ("2023" :> 2023) @@ ("2024" :> 2024)
  @@ (ForecastLabel :> 2025)

RowsOfYear(df, year) == SelectSeq(df, LAMBDA r : DtYear(r.t) = year)

\* the production frame df has a merged record set for the year of label
HasMerged(df, label) ==
  IF label = ForecastLabel THEN YearInFrame(df, 2024) /\ 2025 \in DOMAIN price_dfs
  ELSE YearInFrame(df, LabelYear[label]) /\ LabelYear[label] \in DOMAIN price_dfs

\* the records of df for label: production joined with the prices of the
\* year, for the forecast the production of 2024 and the prices of October to
\* December 2024 moved to 2025
MergedOf(df, label) ==
  IF label = ForecastLabel
    THEN Merge(ShiftedRows(RowsOfYear(df, 2024)),
               price_dfs[2025]
                 \o ShiftedRows(SelectSeq(price_dfs[2024], LAMBDA r : DtMonth(r.t) >= 10)))
  ELSE Merge(RowsOfYear(df, LabelYear[label]), price_dfs[LabelYear[label]])

\* T, E and S of a record set: kWh, kWh and kWh * 1/1000 ct/kWh
SumT(rows) == SetSum(rows, [x \in rows |-> x.yield])

SumE(rows) == SetSum(rows, [x \in rows |-> IF x.price >= 0 THEN x.yield ELSE 0])

SumS(rows) == SetSum(rows, [x \in rows |-> IF x.price >= 0 THEN x.yield * x.price ELSE 0])

SumAll(rows) == SetSum(rows, [x \in rows |-> x.yield * x.price])

\* n / d rounded to the nearest integer, ties to even (d > 0)
RoundDiv(n, d) ==
  LET q == FloorDiv(n, d)
      r2 == 2 * (n - q * d)
  IN IF r2 > d THEN q + 1
     ELSE IF r2 < d THEN q
     ELSE IF q % 2 = 0 THEN q ELSE q + 1

\* r = max(AW - mv_yearly, 0), in 1/1000 ct/kWh
PremiumRate(year) ==
  IF ANZULEGENDER_WERT > InitialMarketValuesYearly[year]
    THEN ANZULEGENDER_WERT - InitialMarketValuesYearly[year]
  ELSE 0

\* ((S + r * E) / T) in ct/kWh rounded to 2 decimals, in 1/100 ct/kWh
PremiumSpecific(rows, year) == RoundDiv(SumS(rows) + PremiumRate(year) * SumE(rows), 10 * SumT(rows))

EntriesOf(name, label) ==
  {i \in 1 .. Len(result.yearly_results) :
     result.yearly_results[i].Projekt = name /\ result.yearly_results[i].Jahr = label}

MonthIndex(name) == CHOOSE m \in 1 .. 12 : MonthNames[m] = name

MonthRows(month) == {x \in result.df_merged_2025 : DtMonth(x.t) = month}

\* no yearly result can come out: no (project, year) has records with T > 0
NothingProduced(df) ==
  \A label \in Labels : ~HasMerged(df, label) \/ SumT(MergedOf(df, label)) = 0

NoYearlyResults == \A name \in Projects : NothingProduced(ProjectFrame(name))

\* C1: when no project is available, or the yearly result set ends up empty,
\* the invocation does not raise: it returns, and its children output is a
\* "no results" message.  (The callback has no branch that builds such a
\* message: its children are the tables or the upload error.)
C1_NoResultsSignal ==
  (pc = "done" /\ ~UploadMalformed /\ (Projects = {} \/ NoYearlyResults))
    => (result.kind = "return" /\ result.children = "no_results")

\* the invocation on zero projects ended in the KeyError of line 283
C1_ZeroProjectsRaise ==
  pc = "done" /\ NoUpload /\ Projects = {} /\ result.kind = "raise" /\ result.exc = "KeyError"

\* C2: when selected_project is not one of the available projects (None, a
\* name of the other dataset, an unknown name), the value returned, which is
\* the project of the monthly breakdown, is the first available project, and
\* the invocation does not raise; for both datasets, without an upload and
\* with an upload that parses.
C2_StaleSelectionFallsBack ==
  (/\ pc = "done"
   /\ NoUpload \/ UploadParses
   /\ ActiveExamples.keys # <<>>
   /\ request.selected_project \notin KeySet(ActiveExamples.keys))
    => (result.kind = "return" /\ result.value = ActiveExamples.keys[1])

\* a stale selection and an upload that parses but has no reading of 2024:
\* the invocation raised
C2_StaleSelectionRaise ==
  /\ pc = "done"
  /\ UploadParses
  /\ ActiveExamples.keys # <<>>
  /\ price_dfs # <<>>
  /\ request.selected_project \notin KeySet(ActiveExamples.keys)
  /\ result.kind = "raise"

\* C3: the module-level reference state (price tables, market values, both
\* example datasets) has its startup value after every sequence of
\* invocations, and an invocation shows only the startup examples of the
\* selected dataset and the upload it was given itself.
C3_ReferenceStateUnchanged ==
  /\ price_dfs = LoadPrices(data_dir, InitialMarketValuesMonthly, InitialMarketValuesYearly)
  /\ market_values_monthly = InitialMarketValuesMonthly
  /\ market_values_yearly = InitialMarketValuesYearly
  /\ example_production_dfs_sb = LoadExamplesSB(data_dir)
  /\ example_production_dfs_nb = LoadExamplesNB(data_dir)
  /\ Returned =>
       /\ KeySet(result.options) =
            KeySet(StartupExamples.keys) \cup (IF UploadParses THEN {UploadName} ELSE {})
       /\ \A i \in 1 .. Len(result.yearly_results) :
            result.yearly_results[i].Projekt \in KeySet(result.options)

\* an upload under the name of an example project was calculated
C3_UploadOverExample ==
  /\ ShowsTables
  /\ UploadParses
  /\ request.selected_dataset = "SB"
  /\ request.filename = SBNames[1]
  /\ EntriesOf(SBNames[1], "2023") # {}

\* C4: in the monthly breakdown 'Umsatz Spotmarkt' is the sum of
\* yield * price / 100 over all records of the month, the records with a
\* negative price included, and 'Spez. Erloes Spotmarkt' is that revenue per
\* kWh of the month's production: a record with a negative price and a
\* positive yield lowers the spot-market revenue.
C4_SpotRevenueOverAllRecords ==
  ShowsTables =>
    \A k \in 1 .. Len(result.monthly_results) :
      LET row == result.monthly_results[k]
          rows == MonthRows(MonthIndex(row.Monat))
      IN SumT(rows) > 0 =>
           /\ row.UmsatzSpotmarkt = RoundDiv(SumAll(rows), 1000)
           /\ row.SpezErloesSpotmarkt = RoundDiv(SumAll(rows), 10 * SumT(rows))

\* a month with production at a negative price whose reported spot-market
\* revenue is the revenue of the records with a price >= 0 alone
C4_NegativePriceLeftOut ==
  /\ ShowsTables
  /\ \E k \in 1 .. Len(result.monthly_results) :
       LET row == result.monthly_results[k]
           rows == MonthRows(MonthIndex(row.Monat))
       IN /\ \E x \in rows : x.price < 0 /\ x.yield > 0
          /\ row.UmsatzSpotmarkt = RoundDiv(SumS(rows), 1000)
          /\ row.UmsatzSpotmarkt # RoundDiv(SumAll(rows), 1000)

\* the entry of (name, label) is the one the records rows call for
PremiumEntry(name, label, rows) ==
  SumT(rows) > 0 =>
    /\ EntriesOf(name, label) # {}
    /\ \A i \in EntriesOf(name, label) :
         result.yearly_results[i].spec = PremiumSpecific(rows, LabelYear[label])

PremiumEntries(name, df) ==
  \A label \in Labels : HasMerged(df, label) => PremiumEntry(name, label, MergedOf(df, label))

\* C5: for every record set with T > 0 the yearly-premium specific revenue
\* reported is round2((S + r * E) / T), r = max(AW - mv_yearly, 0), S and E
\* the revenue and the production of the records with a price >= 0: in the
\* yearly entry of every (project, year), and in every month of the breakdown.
C5_YearlyPremiumSpecificRevenue ==
  ShowsTables =>
    /\ \A name \in Projects : PremiumEntries(name, ProjectFrame(name))
    /\ \A k \in 1 .. Len(result.monthly_results) :
         LET row == result.monthly_results[k]
             rows == MonthRows(MonthIndex(row.Monat))
         IN SumT(rows) > 0 => row.SpezErloesMarktpraemie = PremiumSpecific(rows, 2025)

\* a forecast entry whose records have production at negative and at
\* non-negative prices, in a year with a premium
C5_EntryWithPremiumAndNegativePrice ==
  /\ ShowsTables
  /\ PremiumRate(2025) > 0
  /\ \E i \in 1 .. Len(result.yearly_results) :
       /\ result.yearly_results[i].Jahr = ForecastLabel
       /\ result.yearly_results[i].Projekt = result.value
       /\ result.yearly_results[i].spec > 0
       /\ \E x \in result.df_merged_2025 : x.price < 0 /\ x.yield > 0
       /\ \E x \in result.df_merged_2025 : x.price > 0 /\ x.yield > 0

\* the entries of the project name belong to records with T > 0
EntriesProduced(name, df) ==
  \A label \in Labels :
    EntriesOf(name, label) # {} => (HasMerged(df, label) /\ SumT(MergedOf(df, label)) > 0)

\* the project name has forecast records, none with production, and no entry
IdleInForecast(name, df) ==
  /\ HasMerged(df, ForecastLabel)
  /\ MergedOf(df, ForecastLabel) # {}
  /\ SumT(MergedOf(df, ForecastLabel)) = 0
  /\ EntriesOf(name, ForecastLabel) = {}

\* C6: a (project, year) whose records have T = 0 has no entry in the yearly
\* results, every entry belongs to records with T > 0, and no (project, year)
\* has two entries.
C6_NoEntryWithoutProduction ==
  Returned =>
    /\ \A i \in 1 .. Len(result.yearly_results) :
         result.yearly_results[i].Projekt \in Projects /\ result.yearly_results[i].Jahr \in Labels
    /\ \A name \in Projects : EntriesProduced(name, ProjectFrame(name))
    /\ \A i, j \in 1 .. Len(result.yearly_results) :
         (result.yearly_results[i].Projekt = result.yearly_results[j].Projekt
          /\ result.yearly_results[i].Jahr = result.yearly_results[j].Jahr) => i = j

\* a project with records but no production in the forecast year was left
\* out of results that have other entries
C6_IdleProjectSkipped ==
  /\ ShowsTables
  /\ result.yearly_results # <<>>
  /\ \E name \in Projects : IdleInForecast(name, ProjectFrame(name))

AllHours(year, months) ==
  {Timestamp(year, m, d, h) :
     m \in months, d \in 1 .. 31, h \in 0 .. LastHour} \ {t \in
       {Timestamp(year, m, d, h) : m \in months, d \in 29 .. 31, h \in 0 .. LastHour} :
         t[3] > DaysInMonth(year, t[2])}

Times(df) == {df[i].t : i \in 1 .. Len(df)}

NoRepeatedTime(df) == Cardinality(Times(df)) = Len(df)

\* the premise of C7: the 2025 file has exactly the hours of January to
\* September, the 2024 file has every hour of October to December once
PricesSplitAtOctober ==
  /\ price_dfs # <<>>
  /\ Times(price_dfs[2025]) = AllHours(2025, 1 .. 9)
  /\ NoRepeatedTime(price_dfs[2025])
  /\ Times(SelectSeq(price_dfs[2024], LAMBDA r : DtMonth(r.t) >= 10)) = AllHours(2024, 10 .. 12)
  /\ NoRepeatedTime(SelectSeq(price_dfs[2024], LAMBDA r : DtMonth(r.t) >= 10))

\* the rows of full after the first n are the rows of end, one year later
ShiftedInPlace(full, n, end) ==
  /\ Len(full) = n + Len(end)
  /\ \A k \in 1 .. Len(end) :
       /\ full[n + k].t = Timestamp(2025, DtMonth(end[k].t), DtDay(end[k].t), DtHour(end[k].t))
       /\ full[n + k].price = end[k].price

\* C7: when the 2025 prices cover exactly January to September and the 2024
\* prices cover October to December, the forecast price series (the 2025
\* prices and the October to December prices of 2024 moved one year on) has
\* every hour of 2025 exactly once, and every moved record keeps its price,
\* month, day and hour.
C7_ForecastPricesCoverYear ==
  (ShowsTables /\ PricesSplitAtOctober) =>
    /\ Times(result.df_price_2025_full) = AllHours(2025, 1 .. 12)
    /\ NoRepeatedTime(result.df_price_2025_full)
    /\ ShiftedInPlace(result.df_price_2025_full, Len(price_dfs[2025]),
                      SelectSeq(price_dfs[2024], LAMBDA r : DtMonth(r.t) >= 10))

\* a breakdown was calculated on such prices
C7_FullYearSeries ==
  /\ ShowsTables
  /\ PricesSplitAtOctober
  /\ Len(result.df_price_2025_full) = 365 * HoursPerDay
  /\ \E i \in 1 .. Len(result.df_price_2025_full) :
       result.df_price_2025_full[i].t = Timestamp(2025, 12, 31, LastHour)

\* the children, options and value of the return after an upload error
ExamplesOnly ==
  /\ result.kind = "return"
  /\ result.children = "error_div"
  /\ result.options = ActiveExamples.keys
  /\ result.value =
       IF request.selected_project \in KeySet(ActiveExamples.keys) THEN request.selected_project
       ELSE IF ActiveExamples.keys # <<>> THEN ActiveExamples.keys[1] ELSE None

\* C8: an upload that does not parse, for whatever reason, never makes the
\* invocation raise: it returns an error message, the options of the example
\* projects alone, and the validated selection.
C8_MalformedUploadRecovers == (pc = "done" /\ UploadMalformed) => ExamplesOnly

\* contents that are not "<type>,<base64>" ended the invocation with the
\* exception of line 167 or 168
C8_DecodeRaises ==
  /\ pc = "done"
  /\ UploadMalformed
  /\ result.kind = "raise"
  /\ result.exc \in {"ValueError", "binascii.Error"}

\* C9: the value returned is one of the options returned, or None exactly
\* when there are no options; after an upload that parses it is the name of
\* the uploaded project.
C9_ValueAmongOptions ==
  Returned =>
    /\ result.value \in KeySet(result.options) \/ (result.options = <<>> /\ result.value = None)
    /\ result.value = None => result.options = <<>>
    /\ UploadParses => result.value = UploadName

\* a selection that is no project was replaced by the first option
C9_UnknownSelectionReplaced ==
  /\ Returned
  /\ request.selected_project = "unknown"
  /\ result.options # <<>>
  /\ result.value = result.options[1]

\* the production of 2024 on the day (m, d), at the hours that have a price
DayTotal2024(src, priced, m, d) ==
  SeqSum(AsTuple([i \in 1 .. Len(src) |->
    IF DtMonth(src[i].t) = m /\ DtDay(src[i].t) = d
       /\ Timestamp(2025, m, d, DtHour(src[i].t)) \in priced
      THEN src[i].yield ELSE 0]))

DayTotalMerged(rows, m, d) ==
  SumT({x \in rows : DtMonth(x.t) = m /\ DtDay(x.t) = d})

SameDayTotals(src, priced, rows) ==
  \A m \in 1 .. 12 : \A d \in 1 .. DaysInMonth(2025, m) :
    DayTotalMerged(rows, m, d) = DayTotal2024(src, priced, m, d)

\* C10: moving the production of 2024 one year on is injective, 29 February
\* included: no two moved records have the same timestamp, and the totals of
\* every day (hence of every month) of the merged forecast are those of the
\* same day of 2024.
C10_ShiftInjective ==
  ShowsTables =>
    /\ NoRepeatedTime(result.df_pv_2025)
    /\ NoRepeatedTime(result.df_price_2025_full)
         => SameDayTotals(RowsOfYear(ProjectFrame(result.value), 2024),
                          Times(result.df_price_2025_full), result.df_merged_2025)

\* an hour of 28 February 2025 holds two moved records
C10_LeapDayCollides ==
  /\ ShowsTables
  /\ \E i, j \in 1 .. Len(result.df_pv_2025) :
       /\ i < j
       /\ result.df_pv_2025[i].t = result.df_pv_2025[j].t
       /\ DtMonth(result.df_pv_2025[i].t) = 2
       /\ DtDay(result.df_pv_2025[i].t) = 28
       /\ result.df_pv_2025[i].yield > 0
       /\ result.df_pv_2025[j].yield > 0

====
